---- MODULE Spec2Model ----
(***************************************************************************)
(* Model of backend/main.py: the room registry (rooms_db), the stream      *)
(* session table (active_streams) and the HTTP handlers that read and      *)
(* write them.  Every handler runs on one asyncio event loop: a handler    *)
(* is atomic except where it awaits, and only the two webhooks await       *)
(* (request.form(), main.py:214 and :234).                                 *)
(***************************************************************************)
EXTENDS Integers, Sequences, FiniteSets, TLC

\* ------------------------------------------------------------------ bounds
MaxTime == 1        \* datetime.utcnow() reads 0..MaxTime
MaxInflight == 1    \* webhook requests suspended in request.form() at once

\* Values the identifier generators and the clients can produce.
RoomIds == {"r1", "r2"}                      \* outputs of str(uuid.uuid4())
StreamKeys == {"k1", "k2"}                   \* outputs of secrets.token_urlsafe(32)
Titles == {"Morning Show"}                   \* CreateRoomRequest.title
None == "None"                               \* form_data.get("name") with no such field
Names == StreamKeys \cup {None}
Null == -1                                   \* `None` where a datetime is expected
Time == 0..MaxTime

VARIABLES
    rooms_db,        \* Dict[str, Room], in insertion order: a sequence of Room
    active_streams,  \* Dict[str, datetime]: a function on a subset of StreamKeys
    now,             \* the value datetime.utcnow() returns
    waiting,         \* webhook handlers suspended in `await request.form()`
    last,            \* the handler that completed last, with its response
    issued_ids,      \* history: every room_id create_room has returned
    issued_keys,     \* history: every stream_key create_room has returned
    reissued,        \* history: some create_room returned an identifier again
    rekeyed,         \* history: some create_room returned a stream_key again
    race             \* the start/end race under observation (SpecRace only)

vars == <<rooms_db, active_streams, now, waiting, last,
          issued_ids, issued_keys, reissued, rekeyed, race>>

\* ------------------------------------------------------------ data model
\* class Room: is_active and viewer_count take their defaults.
Room(room_id, stream_key, title, created_at) ==
    [room_id |-> room_id, stream_key |-> stream_key, title |-> title,
     created_at |-> created_at, is_active |-> FALSE, viewer_count |-> 0]

\* class RoomResponse, as create_room and get_room fill it in.
RoomResponse(room) ==
    [room_id |-> room.room_id,
     stream_key |-> room.stream_key,
     title |-> room.title,
     rtmp_url |-> <<"rtmp://tilsync.nu.edu.kz:443/live/", room.stream_key>>,
     viewer_url |-> <<"https://tilsync.nu.edu.kz/broadcast/client/room/", room.room_id>>,
     qr_code |-> <<"data:image/png;base64,",
                   "https://tilsync.nu.edu.kz/broadcast/client/room/", room.room_id>>,
     created_at |-> room.created_at,
     is_active |-> room.is_active,
     viewer_count |-> room.viewer_count]

\* raise HTTPException(status_code=404, detail="Room not found")
NotFound == [detail |-> "Room not found"]

Response(op, arg, status, body) ==
    [op |-> op, arg |-> arg, status |-> status, body |-> body]

\* ------------------------------------------------- dict operations (rooms_db)
\* `room_id in rooms_db`
Contains(db, room_id) == \E i \in DOMAIN db : db[i].room_id = room_id

IndexOf(db, room_id) == CHOOSE i \in DOMAIN db : db[i].room_id = room_id

\* `rooms_db[room_id]`
GetItem(db, room_id) == db[IndexOf(db, room_id)]

\* `rooms_db[room_id] = room`: a present key keeps its place, a new one is appended.
SetItem(db, room_id, room) ==
    IF Contains(db, room_id)
    THEN [db EXCEPT ![IndexOf(db, room_id)] = room]
    ELSE Append(db, room)

\* `del rooms_db[room_id]`
DelItem(db, room_id) ==
    LET i == IndexOf(db, room_id)
    IN SubSeq(db, 1, i - 1) \o SubSeq(db, i + 1, Len(db))

\* `active_streams[stream_key] = t`
PutStream(streams, stream_key, t) ==
    [k \in DOMAIN streams \cup {stream_key} |->
        IF k = stream_key THEN t ELSE streams[k]]

\* `if stream_key in active_streams: del active_streams[stream_key]`
DropStream(streams, stream_key) ==
    [k \in DOMAIN streams \ {stream_key} |-> streams[k]]

\* The scan of both webhooks: the first room, in dict order, whose stream_key
\* is the name; 0 stands for `room = None`.
FindRoom(db, name) ==
    IF \E i \in DOMAIN db : db[i].stream_key = name
    THEN CHOOSE i \in DOMAIN db :
            /\ db[i].stream_key = name
            /\ \A j \in 1..(i - 1) : db[j].stream_key # name
    ELSE 0

\* --------------------------------------------- the webhooks' critical sections
\* Mutant of StartRooms: the scan keeps the first room whatever its stream_key
\* (`room = r; break` outside the `if`).
StartRooms_first(db, name) ==
    IF Len(db) > 0 THEN [db EXCEPT ![1].is_active = TRUE] ELSE db

\* Mutant of StartRooms: the flag is flipped, `room.is_active = not
\* room.is_active`, instead of set.
StartRooms_toggle(db, name) ==
    LET i == FindRoom(db, name)
    IN IF i # 0 THEN [db EXCEPT ![i].is_active = ~@] ELSE db

\* stream_start_webhook, lines 217-227, on the tables: the room table after it ...
StartRooms(db, name) ==
    LET i == FindRoom(db, name)
    IN IF i # 0 THEN [db EXCEPT ![i].is_active = TRUE] ELSE db

\* ... and the session table after it (t is datetime.utcnow()).
StartStreams(db, streams, name, t) ==
    IF FindRoom(db, name) # 0 THEN PutStream(streams, name, t) ELSE streams

\* Mutant of EndRooms: the end of a stream leaves every flag as it is.
EndRooms_keep(db, name) == db

\* stream_end_webhook, lines 237-248: the room table after it ...
EndRooms(db, name) ==
    LET i == FindRoom(db, name)
    IN IF i # 0 THEN [db EXCEPT ![i].is_active = FALSE] ELSE db

\* Mutant of EndStreams: the end of one stream empties the session table
\* (`active_streams.clear()`).
EndStreams_clear(db, streams, name) ==
    IF FindRoom(db, name) # 0 /\ name \in DOMAIN streams
    THEN [k \in {} |-> 0]
    ELSE streams

\* ... and the session table after it.
EndStreams(db, streams, name) ==
    IF FindRoom(db, name) # 0 /\ name \in DOMAIN streams
    THEN DropStream(streams, name)
    ELSE streams

\* ------------------------------------------------------------ pure reads
\* get_room's outcome on a registry.
GetRoomResult(db, room_id) ==
    IF ~Contains(db, room_id)
    THEN Response("get_room", room_id, 404, NotFound)
    ELSE Response("get_room", room_id, 200, RoomResponse(GetItem(db, room_id)))

\* get_stream_status's outcome on a session table.
StreamStatusResult(streams, stream_key) ==
    LET is_active == stream_key \in DOMAIN streams
    IN Response("get_stream_status", stream_key, 200,
                [stream_key |-> stream_key,
                 is_active |-> is_active,
                 started_at |-> IF is_active THEN streams[stream_key] ELSE Null])

\* get_room_stream_url's outcome on a registry.
StreamUrlResult(db, room_id) ==
    IF ~Contains(db, room_id)
    THEN Response("get_room_stream_url", room_id, 404, NotFound)
    ELSE LET room == GetItem(db, room_id)
         IN Response("get_room_stream_url", room_id, 200,
                     [room_id |-> room_id,
                      hls_url |-> <<"/broadcast/client/hls/", room.stream_key, ".m3u8">>,
                      is_active |-> room.is_active,
                      title |-> room.title])

\* list_rooms's response body.
RoomSummaries(db) ==
    [i \in DOMAIN db |->
        [room_id |-> db[i].room_id, title |-> db[i].title,
         created_at |-> db[i].created_at, is_active |-> db[i].is_active,
         viewer_count |-> db[i].viewer_count]]

\* ---------------------------------------------------------------- state
NoRace == [phase |-> "off", rooms |-> << >>, streams |-> << >>, name |-> None]

NothingWaiting == waiting.start = 0 /\ waiting.end = 0

Inflight == waiting.start + waiting.end

Init ==
    /\ rooms_db = << >>
    /\ active_streams = << >>
    /\ now = 0
    /\ waiting = [start |-> 0, end |-> 0]
    /\ last = Response("startup", None, 200, None)
    /\ issued_ids = {}
    /\ issued_keys = {}
    /\ reissued = FALSE
    /\ rekeyed = FALSE
    /\ race = NoRace

history == <<issued_ids, issued_keys, reissued, rekeyed>>

\* -------------------------------------------------------------- handlers
\* POST /api/rooms.  room_id and stream_key are what uuid.uuid4() and
\* secrets.token_urlsafe(32) return: any value, checked against nothing.
create_room(title, room_id, stream_key) ==
    LET room == Room(room_id, stream_key, title, now)
    IN /\ rooms_db' = SetItem(rooms_db, room_id, room)
       /\ last' = Response("create_room", title, 200, RoomResponse(room))
       /\ issued_ids' = issued_ids \cup {room_id}
       /\ issued_keys' = issued_keys \cup {stream_key}
       /\ reissued' = (reissued \/ room_id \in issued_ids \/ stream_key \in issued_keys)
       /\ rekeyed' = (rekeyed \/ stream_key \in issued_keys)
       /\ UNCHANGED <<active_streams, now, waiting, race>>

\* GET /api/rooms/{room_id}
get_room(room_id) ==
    /\ last' = GetRoomResult(rooms_db, room_id)
    /\ UNCHANGED <<rooms_db, active_streams, now, waiting, history, race>>

\* GET /api/rooms
list_rooms ==
    /\ last' = Response("list_rooms", None, 200, RoomSummaries(rooms_db))
    /\ UNCHANGED <<rooms_db, active_streams, now, waiting, history, race>>

\* Mutant of delete_room: the delete also purges the session of the room's
\* stream_key.
delete_room_cascade(room_id) ==
    /\ IF ~Contains(rooms_db, room_id)
       THEN /\ last' = Response("delete_room", room_id, 404, NotFound)
            /\ UNCHANGED <<rooms_db, active_streams>>
       ELSE /\ rooms_db' = DelItem(rooms_db, room_id)
            /\ active_streams' =
                  DropStream(active_streams, GetItem(rooms_db, room_id).stream_key)
            /\ last' = Response("delete_room", room_id, 200,
                                [message |-> "Room deleted successfully"])
    /\ UNCHANGED <<now, waiting, history, race>>

\* DELETE /api/rooms/{room_id}
delete_room(room_id) ==
    /\ IF ~Contains(rooms_db, room_id)
       THEN /\ last' = Response("delete_room", room_id, 404, NotFound)
            /\ UNCHANGED rooms_db
       ELSE /\ rooms_db' = DelItem(rooms_db, room_id)
            /\ last' = Response("delete_room", room_id, 200,
                                [message |-> "Room deleted successfully"])
    /\ UNCHANGED <<active_streams, now, waiting, history, race>>

\* A POST /webhooks/stream_start arrives and its handler suspends in
\* `form_data = await request.form()` (line 214), the form not yet read.
stream_start_await ==
    /\ Inflight < MaxInflight
    /\ waiting' = [waiting EXCEPT !.start = @ + 1]
    /\ UNCHANGED <<rooms_db, active_streams, now, last, history, race>>

\* A POST /webhooks/stream_end arrives and suspends likewise (line 234).
stream_end_await ==
    /\ Inflight < MaxInflight
    /\ waiting' = [waiting EXCEPT !.end = @ + 1]
    /\ UNCHANGED <<rooms_db, active_streams, now, last, history, race>>

\* Mutant of stream_start_webhook: the section records the session and leaves
\* out `room.is_active = True`.
stream_start_webhook_no_flag(name) ==
    /\ waiting.start > 0
    /\ waiting' = [waiting EXCEPT !.start = @ - 1]
    /\ active_streams' = StartStreams(rooms_db, active_streams, name, now)
    /\ last' = Response("stream_start", name, 200, [status |-> "ok"])
    /\ UNCHANGED <<rooms_db, now, history, race>>

\* POST /webhooks/stream_start, resumed with the form (name is its "name"
\* field, None when it has none): lines 215-229, which hold no further await
\* and so run as one step of the event loop.
stream_start_webhook(name) ==
    /\ waiting.start > 0
    /\ waiting' = [waiting EXCEPT !.start = @ - 1]
    /\ rooms_db' = StartRooms(rooms_db, name)
    /\ active_streams' = StartStreams(rooms_db, active_streams, name, now)
    /\ last' = Response("stream_start", name, 200, [status |-> "ok"])
    /\ UNCHANGED <<now, history, race>>

\* Mutant of stream_end_webhook: an unknown key is answered like an unknown
\* room_id elsewhere, `raise HTTPException(status_code=404, ...)`.
stream_end_webhook_404(name) ==
    /\ waiting.end > 0
    /\ waiting' = [waiting EXCEPT !.end = @ - 1]
    /\ rooms_db' = EndRooms(rooms_db, name)
    /\ active_streams' = EndStreams(rooms_db, active_streams, name)
    /\ last' = IF FindRoom(rooms_db, name) = 0
               THEN Response("stream_end", name, 404, NotFound)
               ELSE Response("stream_end", name, 200, [status |-> "ok"])
    /\ UNCHANGED <<now, history, race>>

\* POST /webhooks/stream_end, resumed with the form: lines 235-250.
stream_end_webhook(name) ==
    /\ waiting.end > 0
    /\ waiting' = [waiting EXCEPT !.end = @ - 1]
    /\ rooms_db' = EndRooms(rooms_db, name)
    /\ active_streams' = EndStreams(rooms_db, active_streams, name)
    /\ last' = Response("stream_end", name, 200, [status |-> "ok"])
    /\ UNCHANGED <<now, history, race>>

\* GET /api/stream/{stream_key}/status
get_stream_status(stream_key) ==
    /\ last' = StreamStatusResult(active_streams, stream_key)
    /\ UNCHANGED <<rooms_db, active_streams, now, waiting, history, race>>

\* GET /api/room/{room_id}/stream-url
get_room_stream_url(room_id) ==
    /\ last' = StreamUrlResult(rooms_db, room_id)
    /\ UNCHANGED <<rooms_db, active_streams, now, waiting, history, race>>

\* The wall clock datetime.utcnow() reads moves on.
Tick ==
    /\ now < MaxTime
    /\ now' = now + 1
    /\ UNCHANGED <<rooms_db, active_streams, waiting, last, history, race>>

Next ==
    \/ \E room_id \in RoomIds : delete_room(room_id)
    \/ \E title \in Titles, room_id \in RoomIds, stream_key \in StreamKeys :
          create_room(title, room_id, stream_key)
    \/ \E room_id \in RoomIds : get_room(room_id)
    \/ list_rooms
    \/ stream_start_await
    \/ stream_end_await
    \/ \E name \in Names : stream_start_webhook(name)
    \/ \E name \in Names : stream_end_webhook(name)
    \/ \E stream_key \in StreamKeys : get_stream_status(stream_key)
    \/ \E room_id \in RoomIds : get_room_stream_url(room_id)
    \/ Tick

Spec == Init /\ [][Next]_vars

\* ------------------------------------------------ the start/end race (C4)
\* The handlers that write the tables or the clock: what builds the state a
\* race starts from.
Build ==
    \/ \E title \in Titles, room_id \in RoomIds, stream_key \in StreamKeys :
          create_room(title, room_id, stream_key)
    \/ \E room_id \in RoomIds : delete_room(room_id)
    \/ stream_start_await
    \/ stream_end_await
    \/ \E name \in Names : stream_start_webhook(name)
    \/ \E name \in Names : stream_end_webhook(name)
    \/ Tick

\* The media server posts stream_start and stream_end for the same key at
\* nearly the same time: both handlers are suspended in request.form() before
\* either is resumed.  race keeps the tables as they were at that moment.
RaceBegin(name) ==
    /\ race.phase = "off"
    /\ NothingWaiting
    /\ race' = [phase |-> "on", rooms |-> rooms_db,
                streams |-> active_streams, name |-> name]
    /\ waiting' = [start |-> 1, end |-> 1]
    /\ UNCHANGED <<rooms_db, active_streams, now, last, history>>

\* The event loop resumes the two racing handlers, in either order.
RaceStep ==
    /\ race.phase = "on"
    /\ \/ stream_start_webhook(race.name)
       \/ stream_end_webhook(race.name)
       \/ Tick

NextRace ==
    \/ race.phase = "off" /\ Build
    \/ \E name \in StreamKeys : RaceBegin(name)
    \/ RaceStep

SpecRace == Init /\ [][NextRace]_vars

\* ------------------------------------------------------------ vocabulary
\* The step is a resumed stream_start_webhook / stream_end_webhook: only they
\* take a handler out of waiting.
StartStep == waiting'.start < waiting.start
EndStep == waiting'.end < waiting.end

\* The step is a handler returning an answer other than the one before it.
Answered == <<last'.op, last'.arg, last'.status>> # <<last.op, last.arg, last.status>>

\* The rooms of db whose stream_key is key.
Owned(db, key) == {i \in DOMAIN db : db[i].stream_key = key}

SessionSeen(streams, key) == StreamStatusResult(streams, key).body

\* ----------------------------------------------------------------- C1
\* C1: for every room (R, S) in the registry, right after a stream-start
\* notification carrying S get(R) shows is_active = true, and right after a
\* stream-end notification carrying S it shows is_active = false.
C1_StartEndFlipRoom ==
    \A i \in DOMAIN rooms_db :
        LET seen == GetRoomResult(rooms_db, rooms_db[i].room_id)
        IN /\ (last.op = "stream_start" /\ last.arg = rooms_db[i].stream_key)
                => (seen.status = 200 /\ seen.body.is_active)
           /\ (last.op = "stream_end" /\ last.arg = rooms_db[i].stream_key)
                => (seen.status = 200 /\ ~seen.body.is_active)

\* ----------------------------------------------------------------- C2
\* C2: for every stream key k, owned by a room or not, right after a
\* stream-start notification for k the status query for k returns
\* is_active = true with a started_at that is not null.
C2_StartRecordsSession ==
    (last.op = "stream_start" /\ last.arg \in StreamKeys)
        => /\ SessionSeen(active_streams, last.arg).is_active
           /\ SessionSeen(active_streams, last.arg).started_at # Null

\* ----------------------------------------------------------------- C3
\* C3: for every stream key k, right after a stream-end notification for k
\* the status query for k returns is_active = false and started_at = null,
\* whether or not a room owning k is in the registry.
C3_EndRemovesSession ==
    (last.op = "stream_end" /\ last.arg \in StreamKeys)
        => /\ ~SessionSeen(active_streams, last.arg).is_active
           /\ SessionSeen(active_streams, last.arg).started_at = Null

\* ----------------------------------------------------------------- C4
\* The tables after the racing handlers' sections run one after the other,
\* start first and then end (first, t: what datetime.utcnow() read) ...
StartThenEnd(db, streams, name, t) ==
    LET db1 == StartRooms(db, name)
        streams1 == StartStreams(db, streams, name, t)
    IN <<EndRooms(db1, name), EndStreams(db1, streams1, name)>>

\* ... and end first and then start.
EndThenStart(db, streams, name, t) ==
    LET db1 == EndRooms(db, name)
        streams1 == EndStreams(db, streams, name)
    IN <<StartRooms(db1, name), StartStreams(db1, streams1, name, t)>>

RaceOver == race.phase = "on" /\ NothingWaiting

\* C4: a stream_start and a stream_end for the same key that are in flight
\* together are serialized: once both handlers have returned, the two tables
\* are what running the two lookup-and-update sections one after the other,
\* in one of the two orders, makes of the tables the race started from; and
\* the owning room's is_active agrees with the key's session-table membership.
C4_RaceSerialized ==
    RaceOver =>
        /\ \E t \in Time :
              <<rooms_db, active_streams>> \in
                  {StartThenEnd(race.rooms, race.streams, race.name, t),
                   EndThenStart(race.rooms, race.streams, race.name, t)}
        /\ FindRoom(rooms_db, race.name) # 0
              => (rooms_db[FindRoom(rooms_db, race.name)].is_active
                    <=> race.name \in DOMAIN active_streams)

\* A race on a key that a room owns has run to its end, start resumed last.
C4_Witness ==
    /\ RaceOver
    /\ FindRoom(rooms_db, race.name) # 0
    /\ last.op = "stream_start"
    /\ rooms_db[FindRoom(rooms_db, race.name)].is_active

\* ----------------------------------------------------------------- C5
\* C5: in every reachable state the stream keys of the rooms in the registry
\* are pairwise distinct, and no room_id or stream_key that create returned is
\* returned by a later create, also after its room was deleted.
C5_IdentifiersUnique ==
    /\ \A i, j \in DOMAIN rooms_db :
          rooms_db[i].stream_key = rooms_db[j].stream_key => i = j
    /\ ~reissued

\* ----------------------------------------------------------------- C6
\* C6: when the generator hands create a room_id that is a key of the
\* registry, or a stream_key a stored room holds, create rejects or retries:
\* the step replaces no stored room and leaves no two rooms with one
\* stream_key.
C6_CreateRejectsCollision ==
    [][last'.op = "create_room" =>
          /\ \A i \in DOMAIN rooms_db :
                /\ Contains(rooms_db', rooms_db[i].room_id)
                /\ GetItem(rooms_db', rooms_db[i].room_id) = rooms_db[i]
          /\ Cardinality(Owned(rooms_db', last'.body.stream_key))
                <= IF Owned(rooms_db, last'.body.stream_key) = {} THEN 1
                   ELSE Cardinality(Owned(rooms_db, last'.body.stream_key))
      ]_vars

\* ----------------------------------------------------------------- C7
\* C7: right after create(title) returned (R, S), get(R) succeeds with the
\* same title, stream_key S, is_active = false and viewer_count = 0, and the
\* webhooks' reverse lookup by S resolves to room R.
C7_CreateVisible ==
    last.op = "create_room" =>
        LET R == last.body.room_id
            S == last.body.stream_key
            seen == GetRoomResult(rooms_db, R)
        IN /\ seen.status = 200
           /\ seen.body.title = last.arg
           /\ seen.body.stream_key = S
           /\ ~seen.body.is_active
           /\ seen.body.viewer_count = 0
           /\ FindRoom(rooms_db, S) # 0
           /\ rooms_db[FindRoom(rooms_db, S)].room_id = R

\* ----------------------------------------------------------------- C8
\* A room_id create returned and the registry no longer holds: a deleted room.
Deleted(room_id) == room_id \in issued_ids /\ ~Contains(rooms_db, room_id)

\* C8: once delete(R) succeeded, get(R), delete(R) and the playback-URL query
\* for R fail with 404 for the rest of the run; and a get, delete or
\* playback-URL query that answers 404 leaves both tables unchanged.
C8_DeletedStaysNotFound ==
    [][/\ \A room_id \in RoomIds :
             Deleted(room_id) =>
                /\ GetRoomResult(rooms_db', room_id).status = 404
                /\ StreamUrlResult(rooms_db', room_id).status = 404
                /\ (Answered /\ last'.op = "delete_room" /\ last'.arg = room_id)
                      => last'.status = 404
       /\ (last'.op \in {"get_room", "delete_room", "get_room_stream_url"}
             /\ last'.status = 404)
            => (rooms_db' = rooms_db /\ active_streams' = active_streams)
      ]_vars

\* ----------------------------------------------------------------- C9
\* C9: a stream-end notification for a key with no session record answers
\* ok and changes nothing: the room table is as before and the status query
\* for the key still returns is_active = false, started_at = null.
C9_EndWithoutSessionNoOp ==
    [][(EndStep /\ last'.arg \notin DOMAIN active_streams) =>
          /\ last'.status = 200
          /\ rooms_db' = rooms_db
          /\ active_streams' = active_streams
          /\ last'.arg \in StreamKeys =>
                /\ ~SessionSeen(active_streams', last'.arg).is_active
                /\ SessionSeen(active_streams', last'.arg).started_at = Null
      ]_vars

\* ----------------------------------------------------------------- C10
\* C10: a stream-start notification for a key that no room in the registry
\* owns answers ok and leaves the room table as it was: the same rooms, each
\* with the same is_active, viewer_count, title and stream_key.
C10_StartUnknownKeepsRooms ==
    [][(StartStep /\ Owned(rooms_db, last'.arg) = {}) =>
          /\ last'.status = 200
          /\ last'.body = [status |-> "ok"]
          /\ rooms_db' = rooms_db
      ]_vars

\* A start for a key nobody owns has returned while the registry held an
\* active room.
C10_Witness ==
    /\ last.op = "stream_start"
    /\ last.arg \in StreamKeys
    /\ Owned(rooms_db, last.arg) = {}
    /\ \E i \in DOMAIN rooms_db : rooms_db[i].is_active

\* ----------------------------------------------------------------- C11
\* C11: every stream-start and stream-end notification is answered 200 with
\* {status: "ok"}, whether its key matches a room, matches none, belonged to a
\* deleted room, or is missing from the form.
C11_WebhooksAlwaysOk ==
    last.op \in {"stream_start", "stream_end"} =>
        /\ last.status = 200
        /\ last.body = [status |-> "ok"]

\* A stream_end for the key of a deleted room, its session still recorded,
\* has been answered.
C11_Witness ==
    /\ last.op = "stream_end"
    /\ last.arg \in issued_keys
    /\ Owned(rooms_db, last.arg) = {}
    /\ last.arg \in DOMAIN active_streams
    /\ last.status = 200

\* ----------------------------------------------------------------- C12
\* The strings of a url (a tuple of its parts) include key.
Mentions(url, key) == \E j \in DOMAIN url : url[j] = key

\* C12: no viewer-facing read gives a room's stream_key away: neither the
\* list, nor get by room_id, nor the playback-URL query returns the key or a
\* value it can be read off.
C12_StreamKeyNotExposed ==
    \A i \in DOMAIN rooms_db :
        LET room == rooms_db[i]
            got == GetRoomResult(rooms_db, room.room_id).body
            url == StreamUrlResult(rooms_db, room.room_id).body
            listed == RoomSummaries(rooms_db)
        IN /\ got.stream_key # room.stream_key
           /\ ~Mentions(got.rtmp_url, room.stream_key)
           /\ ~Mentions(got.viewer_url, room.stream_key)
           /\ ~Mentions(got.qr_code, room.stream_key)
           /\ ~Mentions(url.hls_url, room.stream_key)
           /\ \A j \in DOMAIN listed :
                 /\ listed[j].room_id # room.stream_key
                 /\ listed[j].title # room.stream_key

\* ----------------------------------------------------------------- C13
\* The room_ids the registry holds before and after the step.
Surviving == {room_id \in RoomIds :
                 Contains(rooms_db, room_id) /\ Contains(rooms_db', room_id)}

\* C13: the is_active flag of a room that exists before and after a step
\* changes only when the step is a stream-start or stream-end notification
\* carrying that room's own stream_key; create, get, list, delete, the status
\* and playback-URL queries and notifications for other keys leave it alone.
C13_FlagOnlyByOwnWebhook ==
    [][\A room_id \in Surviving :
          GetItem(rooms_db', room_id).is_active # GetItem(rooms_db, room_id).is_active
             => /\ StartStep \/ EndStep
                /\ last'.arg = GetItem(rooms_db, room_id).stream_key
      ]_vars

\* ----------------------------------------------------------------- C14
\* The step is a successful delete of room_id.
DeleteStep(room_id) == Contains(rooms_db, room_id) /\ ~Contains(rooms_db', room_id)

C15_WebhooksIdempotent ==
    \A name \in Names :
        /\ \A t1, t2 \in Time :
              LET db1 == StartRooms(rooms_db, name)
                  streams1 == StartStreams(rooms_db, active_streams, name, t1)
              IN /\ StartRooms(db1, name) = db1
                 /\ DOMAIN StartStreams(db1, streams1, name, t2) = DOMAIN streams1
        /\ LET db1 == EndRooms(rooms_db, name)
               streams1 == EndStreams(rooms_db, active_streams, name)
           IN /\ EndRooms(db1, name) = db1
              /\ EndStreams(db1, streams1, name) = streams1

\* A stream_start on an owned key has just run and a second one is suspended,
\* about to run on the state the first one left.
C15_Witness ==
    /\ last.op = "stream_start"
    /\ Owned(rooms_db, last.arg) # {}
    /\ last.arg \in DOMAIN active_streams
    /\ waiting.start > 0

\* ----------------------------------------------------------------- C16
\* C16: per stream key the session is Idle or Publishing and moves only
\* Idle -> Publishing in a stream_start step carrying the key and
\* Publishing -> Idle in a stream_end step carrying the key; no other
\* handler, no notification for another key and no passing of time adds a
\* key to the session table or takes one out.
C16_SessionStateMachine ==
    [][\A k \in StreamKeys :
          /\ (k \notin DOMAIN active_streams /\ k \in DOMAIN active_streams')
                => (StartStep /\ last'.op = "stream_start" /\ last'.arg = k)
          /\ (k \in DOMAIN active_streams /\ k \notin DOMAIN active_streams')
                => (EndStep /\ last'.op = "stream_end" /\ last'.arg = k)
      ]_vars

\* A stream_end took its key out of the session table and left the session
\* of the other key publishing.
C16_Witness ==
    /\ last.op = "stream_end"
    /\ last.arg \in StreamKeys
    /\ Owned(rooms_db, last.arg) # {}
    /\ last.arg \notin DOMAIN active_streams
    /\ DOMAIN active_streams # {}

\* ----------------------------------------------------------------- C17
\* The step is a resumed stream_start_webhook whose form names k.
StartOf(k) == StartStep /\ last'.op = "stream_start" /\ last'.arg = k

\* C17: a stream-start for a key that is already Publishing is accepted and
\* stamps the session anew, so the started_at of a recorded session is always
\* the time of the latest stream_start for its key: every stream_start(k) that
\* finds or leaves a session for k is answered ok and leaves it stamped with
\* the time of that step, and no other step changes the stamp.
C17_StartRestamps ==
    [][\A k \in StreamKeys :
          /\ (StartOf(k) /\ (k \in DOMAIN active_streams \/ k \in DOMAIN active_streams'))
                => /\ last'.status = 200
                   /\ k \in DOMAIN active_streams'
                   /\ active_streams'[k] = now
          /\ (~StartOf(k) /\ k \in DOMAIN active_streams /\ k \in DOMAIN active_streams')
                => active_streams'[k] = active_streams[k]
      ]_vars

\* ----------------------------------------------------------------- C18
\* C18: a room is changed only by its deletion or by a flip of its is_active:
\* a room that exists before and after a step keeps its room_id, stream_key,
\* title and created_at, and the viewer_count of every room is 0.
C18_RoomImmutable ==
    [][/\ \A room_id \in Surviving :
             LET old == GetItem(rooms_db, room_id)
                 new == GetItem(rooms_db', room_id)
             IN /\ new.room_id = old.room_id
                /\ new.stream_key = old.stream_key
                /\ new.title = old.title
                /\ new.created_at = old.created_at
       /\ \A i \in DOMAIN rooms_db' : rooms_db'[i].viewer_count = 0
      ]_vars

\* ----------------------------------------------------------------- C19
\* C19: as long as create_room has drawn every stream_key afresh, a room in
\* the registry is active exactly when its stream_key has a record in the
\* session table; the only sessions without such a room are those of keys
\* whose room is gone from the registry.
C19_FlagMatchesSession ==
    ~rekeyed =>
        /\ \A i \in DOMAIN rooms_db :
              rooms_db[i].is_active <=> rooms_db[i].stream_key \in DOMAIN active_streams
        /\ \A k \in DOMAIN active_streams :
              Owned(rooms_db, k) = {} => k \in issued_keys

\* With fresh keys throughout: one room is publishing and the session of
\* a deleted room is still recorded.
C19_Witness ==
    /\ ~rekeyed
    /\ \E i \in DOMAIN rooms_db :
          rooms_db[i].is_active /\ rooms_db[i].stream_key \in DOMAIN active_streams
    /\ \E k \in DOMAIN active_streams : Owned(rooms_db, k) = {}
====
